---- MODULE Spec2Model ----
(***************************************************************************)
(* Model of scripts/render.py: the generator that turns the service        *)
(* descriptors services/<stem>.yml into generated/nginx/<name>.conf and    *)
(* generated/systemd/<name>.service.                                        *)
(*                                                                         *)
(* Text.  A Python str is a sequence of tokens (TLA+ strings); the empty   *)
(* str is << >>, concatenation is \o.  The tokens SP and NL are the white-  *)
(* space the code strips and splits on.  A placeholder __KEY__ is the      *)
(* three tokens Tok(KEY) wherever it occurs, in a template or in a value.  *)
(*                                                                         *)
(* YAML values are tagged records: NoneV, StrV(s), BoolV(b), IntV(n),      *)
(* ListV(l), MapV(m).  An absent key and an explicit null are both NoneV    *)
(* (dict.get and _get treat them alike).  The scalar fields of a            *)
(* descriptor are YAML strings; upstream_port is a string or an integer.    *)
(***************************************************************************)
EXTENDS Integers, Sequences, FiniteSets, TLC

VARIABLES
    \* ---- the file system (shared by both specifications)
    store,      \* services/: file stem -> raw descriptor, or NoFile
    out,        \* generated/: output path -> text
    \* ---- main(): one batch run
    selected,   \* args.service: None (NoSel) or the list of --service names
    pc,         \* position of the run
    queue,      \* the list load_services returned
    idx,        \* number of queue entries main's loop has consumed
    rendered,   \* main's list `rendered`
    parsedLog,  \* history: the stems handed to parse_service, in order
    writeLog,   \* history: the output paths written, in order
    exit,       \* exit status of the process, or NoExit
    err,        \* the SystemExit message, or NoErr
    out0,       \* history: generated/ as the run found it
    \* ---- render_service on one descriptor (the pipeline specification)
    raw,        \* the raw descriptor under test
    tmpl,       \* templates/: the two template documents
    svc,        \* parse_service's result
    blocks,     \* the locals of the last render_service call
    renders,    \* number of render_service calls so far
    prevOut,    \* history: generated/ before the last render_service call
    resolved    \* history: parse_locations' proxy_pass after line 80, per kept entry

vars == <<store, out, selected, pc, queue, idx, rendered, parsedLog, writeLog,
          exit, err, out0, raw, tmpl, svc, blocks, renders, prevOut, resolved>>

pipeVars == <<raw, svc, blocks, renders, prevOut, resolved>>

(***************************************************************************)
(* Bounds                                                                  *)
(***************************************************************************)
MaxFiles == 3     \* descriptor files the store can hold (stems 1..MaxFiles)
MaxSel == 2       \* longest --service list
MaxRenders == 2   \* render_service calls on one descriptor
MaxLocs == 2      \* entries in the locations list of one descriptor

(***************************************************************************)
(* Strings                                                                 *)
(***************************************************************************)
SP == " "
NL == "\n"
IsSpace(t) == t \in {SP, NL}

\* f"__{key}__"
Tok(key) == <<"__", key, "__">>

\* str.replace(old, new): the non-overlapping occurrences of old, left to right
RECURSIVE Replace(_, _, _)
Replace(s, old, new) ==
    LET Occ == {i \in 1..(Len(s) - Len(old) + 1) : SubSeq(s, i, i + Len(old) - 1) = old}
    IN IF Occ = {} THEN s
       ELSE LET i == CHOOSE j \in Occ : \A k \in Occ : j <= k
            IN SubSeq(s, 1, i - 1) \o new
                 \o Replace(SubSeq(s, i + Len(old), Len(s)), old, new)

RECURSIVE Flatten(_)
Flatten(ss) == IF ss = << >> THEN << >> ELSE Head(ss) \o Flatten(Tail(ss))

RECURSIVE LStrip(_)
LStrip(s) == IF s # << >> /\ IsSpace(Head(s)) THEN LStrip(Tail(s)) ELSE s

RECURSIVE RStrip(_)
RStrip(s) ==
    IF s # << >> /\ IsSpace(s[Len(s)]) THEN RStrip(SubSeq(s, 1, Len(s) - 1)) ELSE s

Strip(s) == LStrip(RStrip(s))

EndsWith(s, t) == s # << >> /\ s[Len(s)] = t

\* `sub in s` for Python strs: sub occurs as a contiguous run of s
Contains(s, sub) ==
    \E i \in 0..(Len(s) - Len(sub)) : SubSeq(s, i + 1, i + Len(sub)) = sub

Has(s, t) == \E i \in 1..Len(s) : s[i] = t

\* str.lower(), token by token
LowerTok(t) ==
    CASE t = "Docker" -> "docker"
      [] t = "DOCKER-COMPOSE" -> "docker-compose"
      [] t = "Compose" -> "compose"
      [] t = "YES" -> "yes"
      [] t = "True" -> "true"
      [] t = "On" -> "on"
      [] OTHER -> t
Lower(s) == [i \in 1..Len(s) |-> LowerTok(s[i])]

\* str.splitlines()
RECURSIVE SplitLines(_)
SplitLines(s) ==
    IF s = << >> THEN << >>
    ELSE IF \E i \in 1..Len(s) : s[i] = NL
         THEN LET i == CHOOSE j \in 1..Len(s) :
                           s[j] = NL /\ \A k \in 1..(j - 1) : s[k] # NL
              IN <<SubSeq(s, 1, i - 1)>> \o SplitLines(SubSeq(s, i + 1, Len(s)))
         ELSE <<s>>

\* sep.join(parts)
RECURSIVE Join(_, _)
Join(sep, parts) ==
    IF parts = << >> THEN << >>
    ELSE IF Len(parts) = 1 THEN parts[1]
    ELSE parts[1] \o sep \o Join(sep, Tail(parts))

Digit(d) ==
    CASE d = 0 -> "0" [] d = 1 -> "1" [] d = 2 -> "2" [] d = 3 -> "3"
      [] d = 4 -> "4" [] d = 5 -> "5" [] d = 6 -> "6" [] d = 7 -> "7"
      [] d = 8 -> "8" [] d = 9 -> "9"

\* str(n) for an int n >= 0
RECURSIVE IntStr(_)
IntStr(n) == IF n < 10 THEN <<Digit(n)>> ELSE IntStr(n \div 10) \o <<Digit(n % 10)>>

(***************************************************************************)
(* YAML values                                                             *)
(***************************************************************************)
NoneV == [t |-> "none"]
StrV(s) == [t |-> "str", s |-> s]
BoolV(b) == [t |-> "bool", b |-> b]
IntV(n) == [t |-> "int", n |-> n]
ListV(l) == [t |-> "list", l |-> l]
MapV(m) == [t |-> "map", m |-> m]

\* bool(v)
Truthy(v) ==
    CASE v.t = "none" -> FALSE
      [] v.t = "str" -> v.s # << >>
      [] v.t = "bool" -> v.b
      [] v.t = "int" -> v.n # 0
      [] v.t = "list" -> v.l # << >>
      [] v.t = "map" -> TRUE

\* str(v)
PyStr(v) ==
    CASE v.t = "none" -> <<"None">>
      [] v.t = "str" -> v.s
      [] v.t = "bool" -> IF v.b THEN <<"True">> ELSE <<"False">>
      [] v.t = "int" -> IntStr(v.n)

\* a or b
PyOr(a, b) == IF Truthy(a) THEN a ELSE b

TruthWords == {<<"true">>, <<"yes">>, <<"1">>, <<"on">>}

\* the quoted-empty sentinels '""' and "''"
QuotedEmpty == {StrV(<<"\"\"">>), StrV(<<"''">>)}

(***************************************************************************)
(* parse_locations                                                         *)
(***************************************************************************)
\* entry.get(key) of a location mapping
EntryGet(entry, key) == entry.m[key]

\* lines 82-86: the strip_prefix flag as a bool
\* Mutant: the string form is compared without lower().
StripPrefixFlag_CaseSensitive(v) ==
    IF v.t = "str" THEN v.s \in TruthWords ELSE Truthy(v)

StripPrefixFlag(v) ==
    IF v.t = "str" THEN Lower(v.s) \in TruthWords ELSE Truthy(v)

\* Mutant: the explicit value is used without str.strip().
ResolveProxyPass_NoStrip(v, default_proxy) ==
    IF v = BoolV(FALSE) THEN << >>
    ELSE IF Truthy(v) THEN PyStr(v) ELSE default_proxy

\* lines 75-80: the proxy target before the strip-prefix adjustment
ResolveProxyPass(v, default_proxy) ==
    IF v = BoolV(FALSE) THEN << >>
    ELSE IF Truthy(v) THEN Strip(PyStr(v)) ELSE default_proxy

\* lines 66-98: one entry of the list; << >> when the entry is dropped
NormalizeEntry(entry, default_proxy) ==
    IF entry.t # "map" THEN << >>
    ELSE IF ~Truthy(EntryGet(entry, "path")) THEN << >>
    ELSE LET p0 == ResolveProxyPass(EntryGet(entry, "proxy_pass"), default_proxy)
             sp == StripPrefixFlag(EntryGet(entry, "strip_prefix"))
             p1 == IF sp /\ p0 # << >> /\ ~EndsWith(p0, "/") THEN p0 \o <<"/">> ELSE p0
             extra == PyOr(EntryGet(entry, "extra"), StrV(<< >>))
         IN <<[path |-> Strip(PyStr(EntryGet(entry, "path"))),
               proxy_pass |-> p1,
               extra |-> RStrip(PyStr(extra))]>>

\* Mutant: the kept entries come out in reverse input order.
RECURSIVE NormalizeAll_Reversed(_, _)
NormalizeAll_Reversed(l, default_proxy) ==
    IF l = << >> THEN << >>
    ELSE NormalizeAll_Reversed(Tail(l), default_proxy) \o NormalizeEntry(Head(l), default_proxy)

RECURSIVE NormalizeAll(_, _)
NormalizeAll(l, default_proxy) ==
    IF l = << >> THEN << >>
    ELSE NormalizeEntry(Head(l), default_proxy) \o NormalizeAll(Tail(l), default_proxy)

\* line 80: the local proxy_pass of each kept entry, before lines 82-89 adjust it
RECURSIVE ResolvedAll(_, _)
ResolvedAll(l, default_proxy) ==
    IF l = << >> THEN << >>
    ELSE (IF NormalizeEntry(Head(l), default_proxy) = << >> THEN << >>
          ELSE <<ResolveProxyPass(EntryGet(Head(l), "proxy_pass"), default_proxy)>>)
            \o ResolvedAll(Tail(l), default_proxy)

parse_locations(raw_locations, upstream_host, upstream_port) ==
    IF ~Truthy(raw_locations) THEN << >>
    ELSE IF raw_locations.t # "list" THEN << >>
    ELSE NormalizeAll(raw_locations.l,
                      <<"http://">> \o PyStr(upstream_host) \o <<":">> \o PyStr(upstream_port))

(***************************************************************************)
(* parse_service                                                           *)
(***************************************************************************)
FieldNames == {"name", "domain", "upstream_host", "upstream_port", "working_dir",
               "user", "start_cmd", "stop_cmd", "health_path", "static_root",
               "migrate_cmd", "allow_plain_http", "locations"}

\* yaml.safe_load(...) or {} on a document that is empty (or otherwise falsy)
EmptyData == [k \in FieldNames |-> NoneV]

\* _get(key, default)
Get(data, key, default) == IF data[key].t = "none" THEN default ELSE data[key]

\* _normalize_bool
NormalizeBool(v) ==
    IF v.t = "bool" THEN v.b
    ELSE IF v.t = "str" THEN Lower(v.s) \in TruthWords
    ELSE FALSE

\* line 145
\* Mutant: only the spelling with a space is recognised.
IsCompose_SpaceOnly(start_cmd_lower) ==
    Contains(start_cmd_lower, <<"docker", SP, "compose">>)

IsCompose(start_cmd_lower) ==
    \/ Contains(start_cmd_lower, <<"docker", SP, "compose">>)
    \/ Contains(start_cmd_lower, <<"docker-compose">>)

\* line 162: the required fields, in the order the message lists them
Required == <<"name", "domain", "upstream_port", "start_cmd", "working_dir">>

\* line 163
MissingOf(data) ==
    LET Miss(k) == IF Truthy(Get(data, k, StrV(<< >>))) THEN << >> ELSE <<k>>
    IN Flatten([i \in 1..Len(Required) |-> Miss(Required[i])])

\* lines 119-188, for a document that parsed to the mapping `data`
ParseMapping(data) ==
    LET E == StrV(<< >>)
        name == Get(data, "name", E)
        domain == Get(data, "domain", E)
        upstream_host == PyOr(Get(data, "upstream_host", E), StrV(<<"127.0.0.1">>))
        upstream_port == Get(data, "upstream_port", E)
        working_dir == Get(data, "working_dir", E)
        user == PyOr(Get(data, "user", E), StrV(<<"www-data">>))
        start_cmd == Get(data, "start_cmd", E)
        stop_cmd0 == PyOr(Get(data, "stop_cmd", E), StrV(<<"/bin/true">>))
        health_path == PyOr(Get(data, "health_path", E), StrV(<<"/health">>))
        static_root0 == Get(data, "static_root", E)
        migrate_cmd0 == Get(data, "migrate_cmd", E)
        allow_plain_http == NormalizeBool(Get(data, "allow_plain_http", E))
        locations == parse_locations(Get(data, "locations", ListV(<< >>)),
                                     upstream_host, upstream_port)
        is_compose == IsCompose(Lower(PyOr(start_cmd, E).s))
        static_root == IF static_root0 \in QuotedEmpty THEN E ELSE static_root0
        migrate_cmd == IF migrate_cmd0 \in QuotedEmpty THEN E ELSE migrate_cmd0
        stop_cmd == IF stop_cmd0 \in QuotedEmpty \cup {E}
                    THEN StrV(<<"/bin/true">>) ELSE stop_cmd0
    IN [NAME |-> name.s,              \* "DOMAIN" is the field DOMAIN_ (DOMAIN is a TLA+ keyword)
        DOMAIN_ |-> domain.s,
        UPSTREAM_HOST |-> upstream_host.s,
        UPSTREAM_PORT |-> PyStr(upstream_port),
        WORKING_DIR |-> working_dir.s,
        USER |-> user.s,
        START_CMD |-> start_cmd.s,
        STOP_CMD |-> stop_cmd.s,
        TYPE |-> IF is_compose THEN <<"oneshot">> ELSE <<"simple">>,
        REMAIN_AFTER_EXIT |-> IF is_compose THEN <<"yes">> ELSE <<"no">>,
        RESTART |-> IF is_compose THEN <<"no">> ELSE <<"always">>,
        HEALTH_PATH |-> health_path.s,
        STATIC_ROOT |-> PyOr(static_root, E).s,
        MIGRATE_CMD |-> PyOr(migrate_cmd, E).s,
        ALLOW_PLAIN_HTTP |-> allow_plain_http,
        LOCATIONS |-> locations]

\* Mutant: the strict flag is ignored, every signal is a skip.
Signal_AlwaysSkip(strict, msg) == [res |-> "skip", msg |-> msg]

\* Mutant: every signal raises, also in lenient mode.
Signal_AlwaysExit(strict, msg) == [res |-> "exit", msg |-> msg]

\* line 142, seen from inside parse_locations: the proxy targets as line 80 leaves them
ResolvedTargets(data) ==
    LET E == StrV(<< >>)
        upstream_host == PyOr(Get(data, "upstream_host", E), StrV(<<"127.0.0.1">>))
        raw_locations == Get(data, "locations", ListV(<< >>))
    IN IF ~Truthy(raw_locations) \/ raw_locations.t # "list" THEN << >>
       ELSE ResolvedAll(raw_locations.l,
                        <<"http://">> \o PyStr(upstream_host) \o <<":">>
                            \o PyStr(Get(data, "upstream_port", E)))

\* What a call parse_service(path, strict=strict) does with the document `desc`
\* of services/<stem>.yml:
\*   [res |-> "ok", svc |-> ...]    the dict is returned
\*   [res |-> "skip", msg |-> ...]  msg goes to stderr, None is returned
\*   [res |-> "exit", msg |-> ...]  SystemExit(msg) is raised
Signal(strict, msg) == [res |-> IF strict THEN "exit" ELSE "skip", msg |-> msg]

parse_service(stem, desc, strict) ==
    IF desc.kind = "unparsable"
    THEN Signal(strict, [kind |-> "failed_to_parse", files |-> <<stem>>, fields |-> << >>])
    ELSE IF desc.kind = "nonmapping"
    THEN Signal(strict, [kind |-> "expected_mapping", files |-> <<stem>>, fields |-> << >>])
    ELSE LET data == IF desc.kind = "empty" THEN EmptyData ELSE desc.data
             missing == MissingOf(data)
         IN IF missing # << >>
            THEN Signal(strict, [kind |-> "missing", files |-> <<stem>>, fields |-> missing])
            ELSE [res |-> "ok", svc |-> ParseMapping(data)]

(***************************************************************************)
(* build_nginx_blocks, render_custom_locations, build_server_blocks        *)
(***************************************************************************)
TryFilesLine == "        try_files $uri $uri/ @app;\n"
ProxyPassOpen == "        proxy_pass "
FallbackOpen == "    location @app {\n"
RootOpen == "    root "
MainOpen == "    location / {\n"
RedirectLine == "    return 301 https://$host$request_uri;\n"
AcmeOpen == "    location /.well-known/acme-challenge/ {\n"
HealthComment == "    # Health endpoint\n"
CertOpen == "    ssl_certificate /etc/letsencrypt/live/"
KeyOpen == "    ssl_certificate_key /etc/letsencrypt/live/"

\* the four proxy_set_header lines, separated by eol and ended by last
ProxyHeaders(eol, last) ==
    <<"        proxy_set_header Host $host;", eol,
      "        proxy_set_header X-Real-IP $remote_addr;", eol,
      "        proxy_set_header X-Forwarded-For $proxy_add_x_forwarded_for;", eol,
      "        proxy_set_header X-Forwarded-Proto $scheme;">> \o last

\* Mutant: the named fallback route is emitted on both branches.
build_nginx_blocks_FallbackAlways(static_root, host, port) ==
    LET fb == <<FallbackOpen, ProxyPassOpen, "http://">> \o host \o <<":">> \o port
                \o <<";\n">> \o ProxyHeaders(NL, <<NL>>) \o <<"    }\n">>
    IN IF static_root # << >>
       THEN << <<RootOpen>> \o static_root \o <<";\n", "    index index.html;">>,
               <<TryFilesLine, "        add_header Cache-Control \"no-cache, no-store\";">>,
               fb >>
       ELSE << << >>,
               <<ProxyPassOpen, "http://">> \o host \o <<":">> \o port \o <<";\n">>
                   \o ProxyHeaders(NL, << >>),
               fb >>

\* returns <<root_directive, location_root, fallback_location>>
build_nginx_blocks(static_root, host, port) ==
    IF static_root # << >>
    THEN << <<RootOpen>> \o static_root \o <<";\n", "    index index.html;">>,
            <<TryFilesLine, "        add_header Cache-Control \"no-cache, no-store\";">>,
            <<FallbackOpen, ProxyPassOpen, "http://">> \o host \o <<":">> \o port
                \o <<";\n">> \o ProxyHeaders(NL, <<NL>>) \o <<"    }\n">> >>
    ELSE << << >>,
            <<ProxyPassOpen, "http://">> \o host \o <<":">> \o port \o <<";\n">>
                \o ProxyHeaders(NL, << >>),
            << >> >>

\* lines 241-243: the extra lines of one location, each right-trimmed and indented
ExtraLines(extra) ==
    LET ls == SplitLines(extra)
    IN [i \in 1..Len(ls) |->
            IF RStrip(ls[i]) # << >> THEN <<"        ">> \o RStrip(ls[i])
            ELSE <<"        ">>]

\* Mutant: the proxy directives are emitted whatever proxy_pass is.
LocationBlock_ProxyAlways(loc) ==
    LET head == <<"    location ">> \o loc.path \o <<" {">>
        proxy == << <<ProxyPassOpen>> \o loc.proxy_pass \o <<";">>,
                    <<"        proxy_set_header Host $host;">>,
                    <<"        proxy_set_header X-Real-IP $remote_addr;">>,
                    <<"        proxy_set_header X-Forwarded-For $proxy_add_x_forwarded_for;">>,
                    <<"        proxy_set_header X-Forwarded-Proto $scheme;">> >>
        extra == IF loc.extra # << >> THEN ExtraLines(loc.extra) ELSE << >>
    IN Join(<<NL>>, <<head>> \o proxy \o extra \o << <<"    }">> >>)

\* lines 226-246: the block of one location
LocationBlock(loc) ==
    LET head == <<"    location ">> \o loc.path \o <<" {">>
        proxy == IF loc.proxy_pass # << >>
                 THEN << <<ProxyPassOpen>> \o loc.proxy_pass \o <<";">>,
                         <<"        proxy_set_header Host $host;">>,
                         <<"        proxy_set_header X-Real-IP $remote_addr;">>,
                         <<"        proxy_set_header X-Forwarded-For $proxy_add_x_forwarded_for;">>,
                         <<"        proxy_set_header X-Forwarded-Proto $scheme;">> >>
                 ELSE << >>
        extra == IF loc.extra # << >> THEN ExtraLines(loc.extra) ELSE << >>
    IN Join(<<NL>>, <<head>> \o proxy \o extra \o << <<"    }">> >>)

render_custom_locations(locations) ==
    IF locations = << >> THEN << >>
    ELSE Join(<<NL, NL>>, [i \in 1..Len(locations) |-> LocationBlock(locations[i])])
            \o <<NL, NL>>

\* lines 271-276 / 316-321
HealthStub(health) ==
    <<HealthComment, "    location ">> \o health
        \o <<" {\n", "        access_log off;\n", "        return 200 \"healthy\\n\";\n",
             "        add_header Content-Type text/plain;\n", "    }\n">>

\* lines 258-264 / 279-285
PlainHead(domain) ==
    <<"server {\n", "    listen 80;\n", "    server_name ">> \o domain
        \o <<";\n\n", "    # ACME challenge\n", AcmeOpen, "        root /var/www/certbot;\n",
             "    }\n\n">>

\* lines 265-277: what follows the ACME passthrough in the full plain body
AppBody(service, main_comment, location_root, fallback_location, extra_locations) ==
    <<main_comment, MainOpen>> \o location_root \o <<NL, "    }\n\n">>
        \o fallback_location \o extra_locations
        \o HealthStub(service.HEALTH_PATH) \o <<"}\n">>

\* the nested function server_body of build_server_blocks
server_body(service, location_root, fallback_location, extra_locations, include_tls) ==
    IF service.ALLOW_PLAIN_HTTP \/ ~include_tls
    THEN PlainHead(service.DOMAIN_)
            \o AppBody(service, "    # Main location\n", location_root,
                       fallback_location, extra_locations)
    ELSE PlainHead(service.DOMAIN_)
            \o <<"    # Redirect HTTP to HTTPS\n", RedirectLine, "}\n">>

\* Mutant: the key path is scoped to the service name, not to its domain.
CertPaths_KeyByName(service) ==
    <<CertOpen>> \o service.DOMAIN_ \o <<"/fullchain.pem;\n", KeyOpen>>
        \o service.NAME \o <<"/privkey.pem;\n">>

\* lines 300-301
CertPaths(service) ==
    <<CertOpen>> \o service.DOMAIN_ \o <<"/fullchain.pem;\n", KeyOpen>>
        \o service.DOMAIN_ \o <<"/privkey.pem;\n">>

\* lines 294-323
HttpsBlock(service, root_directive, location_root, fallback_location, extra_locations) ==
    <<"server {\n", "    listen 443 ssl;\n", "    listen [::]:443 ssl;\n",
      "    server_name ">> \o service.DOMAIN_
      \o <<";\n\n", "    # Certbot paths; adjust if you store certs elsewhere.\n">>
      \o CertPaths(service)
      \o <<"    include /etc/letsencrypt/options-ssl-nginx.conf;\n\n",
           "    client_max_body_size 20m;\n",
           "    add_header X-Frame-Options \"SAMEORIGIN\" always;\n",
           "    add_header X-XSS-Protection \"1; mode=block\" always;\n",
           "    add_header X-Content-Type-Options \"nosniff\" always;\n",
           "    add_header Referrer-Policy \"no-referrer-when-downgrade\" always;\n",
           "    add_header Strict-Transport-Security \"max-age=31536000; includeSubDomains; preload\" always;\n\n">>
      \o root_directive \o <<NL>>
      \o AppBody(service,
                 "    # Main location: either proxies or falls back from static to proxy.\n",
                 location_root, fallback_location, extra_locations)

\* Mutant: the encrypted segment is built whatever allow_plain_http says.
build_server_blocks_AlwaysTls(service, root_directive, location_root, fallback_location, extra_locations) ==
    << server_body(service, location_root, fallback_location, extra_locations, FALSE),
       HttpsBlock(service, root_directive, location_root, fallback_location,
                  extra_locations) >>

\* returns <<http_block, https_block>>
build_server_blocks(service, root_directive, location_root, fallback_location, extra_locations) ==
    << server_body(service, location_root, fallback_location, extra_locations, FALSE),
       IF ~service.ALLOW_PLAIN_HTTP
       THEN HttpsBlock(service, root_directive, location_root, fallback_location,
                       extra_locations)
       ELSE << >> >>

(***************************************************************************)
(* render_template, render_service                                         *)
(***************************************************************************)
\* lines 329-330: the loop over replacements.items(), in insertion order
RECURSIVE Substitute(_, _)
Substitute(content, items) ==
    IF items = << >> THEN content
    ELSE Substitute(Replace(content, Tok(Head(items)[1]), Head(items)[2]), Tail(items))

\* Mutant: the destination is opened for appending instead of being replaced.
render_template_Append(fs, template, dest_path, replacements) ==
    (dest_path :> ((IF dest_path \in DOMAIN fs THEN fs[dest_path] ELSE << >>)
                      \o Substitute(template, replacements))) @@ fs

\* The file system fs after render_template: dest_path holds the substituted
\* template (write_text replaces the whole file).
render_template(fs, template, dest_path, replacements) ==
    (dest_path :> Substitute(template, replacements)) @@ fs

NginxPath(name) == <<"nginx", name, ".conf">>
SystemdPath(name) == <<"systemd", name, ".service">>

\* lines 336-342: the locals of render_service
RenderLocals(service) ==
    LET nb == build_nginx_blocks(service.STATIC_ROOT, service.UPSTREAM_HOST,
                                 service.UPSTREAM_PORT)
        extra_locations == render_custom_locations(service.LOCATIONS)
        sb == build_server_blocks(service, nb[1], nb[2], nb[3], extra_locations)
    IN [root_directive |-> nb[1], location_root |-> nb[2], fallback_location |-> nb[3],
        extra_locations |-> extra_locations, http_block |-> sb[1], https_block |-> sb[2]]

nginx_replacements(service) ==
    LET b == RenderLocals(service)
    IN << <<"HTTP_BLOCK", b.http_block>>, <<"HTTPS_BLOCK", b.https_block>> >>

systemd_replacements(service) ==
    << <<"NAME", service.NAME>>, <<"WORKING_DIR", service.WORKING_DIR>>,
       <<"USER", service.USER>>, <<"START_CMD", service.START_CMD>>,
       <<"STOP_CMD", service.STOP_CMD>>, <<"TYPE", service.TYPE>>,
       <<"REMAIN_AFTER_EXIT", service.REMAIN_AFTER_EXIT>>,
       <<"RESTART", service.RESTART>> >>

\* The file system fs after render_service(service), with templates tm
render_service(fs, tm, service) ==
    render_template(
        render_template(fs, tm.nginx, NginxPath(service.NAME), nginx_replacements(service)),
        tm.systemd, SystemdPath(service.NAME), systemd_replacements(service))

(***************************************************************************)
(* Inputs                                                                  *)
(***************************************************************************)
NoFile == [kind |-> "nofile"]
NoSel == [given |-> FALSE]
NoSvc == [NAME |-> << >>]
NoBlocks == [http_block |-> << >>]
NoErr == [kind |-> "none", files |-> << >>, fields |-> << >>]
NoExit == -1

Mapping(data) == [kind |-> "mapping", data |-> data]

\* a location entry: a mapping with the four keys, or any other YAML value
Entry(path, proxy_pass, strip_prefix, extra) ==
    MapV([path |-> path, proxy_pass |-> proxy_pass, strip_prefix |-> strip_prefix,
          extra |-> extra])

LocationSamples ==
    { NoneV,
      StrV(<<"/api">>),
      ListV(<< Entry(StrV(<<"/static">>), BoolV(FALSE), NoneV,
                     StrV(<<"alias /srv/static;", SP, NL, NL, "expires 1h;", NL>>)),
               StrV(<<"junk">>),
               Entry(NoneV, NoneV, NoneV, NoneV),
               Entry(StrV(<<"/ws">>), StrV(<<SP, "http://10.0.0.9:7000">>), StrV(<<"YES">>),
                     NoneV) >>) }

StartCmdSamples ==
    { StrV(<<"/usr/bin/api-server">>),
      StrV(<<"Docker", SP, "Compose", SP, "up">>),
      StrV(<<"/usr/bin/run", SP>> \o Tok("STOP_CMD")) }

\* the descriptors the pipeline specification renders
PipeSamples ==
    { Mapping([EmptyData EXCEPT
                 !["name"] = n, !["domain"] = d, !["upstream_port"] = p,
                 !["working_dir"] = StrV(<<"/srv/api">>), !["start_cmd"] = c,
                 !["static_root"] = r, !["allow_plain_http"] = a, !["locations"] = l]) :
        n \in {StrV(<<"api">>), NoneV},
        d \in {StrV(<<"api.example.com">>), StrV(<<"b.test">>)},
        p \in {IntV(8080), StrV(<<"9000">>)},
        c \in StartCmdSamples,
        r \in {NoneV, StrV(<<"/var/www/app">>), StrV(<<"\"\"">>)},
        a \in {NoneV, BoolV(TRUE), StrV(<<"YES">>), StrV(<<"no">>)},
        l \in LocationSamples }
    \cup {[kind |-> "empty"], [kind |-> "unparsable"], [kind |-> "nonmapping"]}

\* templates/nginx.conf.tmpl and templates/systemd.service.tmpl
TemplateSamples ==
    { [nginx |-> Tok("HTTP_BLOCK") \o <<NL>> \o Tok("HTTPS_BLOCK"),
       systemd |-> <<"[Unit]\nDescription=">> \o Tok("NAME")
                   \o <<"\n[Service]\nType=">> \o Tok("TYPE")
                   \o <<"\nUser=">> \o Tok("USER")
                   \o <<"\nWorkingDirectory=">> \o Tok("WORKING_DIR")
                   \o <<"\nExecStart=">> \o Tok("START_CMD")
                   \o <<"\nExecStop=">> \o Tok("STOP_CMD")
                   \o <<"\nRemainAfterExit=">> \o Tok("REMAIN_AFTER_EXIT")
                   \o <<"\nRestart=">> \o Tok("RESTART") \o <<NL>>],
      [nginx |-> <<"# ">> \o Tok("NAME") \o <<NL>> \o Tok("HTTPS_BLOCK") \o Tok("HTTP_BLOCK"),
       systemd |-> <<"ExecStop=">> \o Tok("STOP_CMD")
                   \o <<"\nExecStart=">> \o Tok("START_CMD")
                   \o <<"\nExecStartPre=">> \o Tok("MIGRATE_CMD")
                   \o <<"\nSyslogIdentifier=">> \o Tok("NAME") \o <<"__">> \o Tok("NAME")] }

StandardTemplates ==
    CHOOSE tm \in TemplateSamples : tm.nginx[2] = "HTTP_BLOCK"

EmptyFs == << >>
\* generated/ left by an earlier run: a file of another service and a stale unit
StaleFs ==
    (NginxPath(<<"other">>) :> <<"# other">>) @@ (SystemdPath(<<"api">>) :> <<"# stale">>)

EmptyStore == [i \in 1..MaxFiles |-> NoFile]

(***************************************************************************)
(* The pipeline: parse_service, then render_service, on one descriptor     *)
(***************************************************************************)
PipeInit ==
    /\ raw \in PipeSamples
    /\ tmpl \in TemplateSamples
    /\ out \in {EmptyFs, StaleFs}
    /\ svc = NoSvc /\ blocks = NoBlocks /\ renders = 0 /\ prevOut = out
    /\ resolved = << >>
    /\ pc = "parse"
    /\ store = EmptyStore /\ selected = NoSel /\ queue = << >> /\ idx = 0
    /\ rendered = << >> /\ parsedLog = << >> /\ writeLog = << >>
    /\ exit = NoExit /\ err = NoErr /\ out0 = out

\* parse_service(path, strict=strict) on the descriptor: the dict, None (the
\* descriptor is skipped) or SystemExit (the run is aborted)
PipeParse ==
    /\ pc = "parse"
    /\ LET r == parse_service(1, raw, selected.given)
       IN CASE r.res = "ok" ->
                 /\ svc' = r.svc /\ pc' = "render" /\ err' = err /\ exit' = exit
                 /\ resolved' = ResolvedTargets(raw.data)
            [] r.res = "skip" ->
                 /\ svc' = svc /\ pc' = "skipped" /\ err' = r.msg /\ exit' = exit
                 /\ resolved' = resolved
            [] r.res = "exit" ->
                 /\ svc' = svc /\ pc' = "aborted" /\ err' = r.msg /\ exit' = 1
                 /\ resolved' = resolved
    /\ UNCHANGED <<store, out, tmpl, raw, blocks, renders, prevOut, selected, queue, idx,
                   rendered, parsedLog, writeLog, out0>>

\* render_service(parsed), once more on the same descriptor
PipeRender ==
    /\ pc \in {"render", "rendered"}
    /\ renders < MaxRenders
    /\ prevOut' = out
    /\ out' = render_service(out, tmpl, svc)
    /\ blocks' = RenderLocals(svc)
    /\ renders' = renders + 1
    /\ pc' = "rendered"
    /\ UNCHANGED <<store, tmpl, raw, svc, selected, queue, idx, rendered, parsedLog,
                   writeLog, exit, err, out0, resolved>>

PipeNext == PipeParse \/ PipeRender

PipeSpec == PipeInit /\ [][PipeNext]_vars

\* ---- parse_service on descriptors that vary the five required fields ----

\* the two ways main() calls parse_service (line 381): lenient, or strict for
\* a descriptor that was requested by name
StrictModes == {NoSel, [given |-> TRUE, names |-> <<1>>]}

ParseSamples ==
    { Mapping([EmptyData EXCEPT
                 !["name"] = n, !["domain"] = d, !["upstream_port"] = p,
                 !["working_dir"] = w, !["start_cmd"] = c]) :
        n \in {StrV(<<"api">>), NoneV, StrV(<< >>), StrV(<<"\"\"">>)},
        d \in {StrV(<<"api.example.com">>), NoneV, StrV(<<"''">>)},
        p \in {IntV(8080), IntV(0), NoneV, StrV(<<"\"\"">>)},
        w \in {StrV(<<"/srv/api">>), NoneV, StrV(<<"''">>)},
        c \in {StrV(<<"/usr/bin/api-server">>),
               StrV(<<"Docker", SP, "Compose", SP, "up">>),
               StrV(<<"/usr/bin/", "DOCKER-COMPOSE", SP, "up">>),
               StrV(<<"docker", SP, "run", SP, "compose">>),
               NoneV, StrV(<<"\"\"">>)} }
    \cup {[kind |-> "empty"], [kind |-> "unparsable"], [kind |-> "nonmapping"]}

ParseInit ==
    /\ raw \in ParseSamples
    /\ tmpl = StandardTemplates
    /\ out = EmptyFs
    /\ selected \in StrictModes
    /\ svc = NoSvc /\ blocks = NoBlocks /\ renders = 0 /\ prevOut = out
    /\ resolved = << >>
    /\ pc = "parse"
    /\ store = EmptyStore /\ queue = << >> /\ idx = 0
    /\ rendered = << >> /\ parsedLog = << >> /\ writeLog = << >>
    /\ exit = NoExit /\ err = NoErr /\ out0 = out

ParseSpec == ParseInit /\ [][PipeNext]_vars

\* ---- parse_locations and render_custom_locations on lists of entries ----

Url == "http://10.0.0.9:7000"
ExtraSample == <<"alias /srv/static;", SP, NL, NL, "expires 1h;", NL>>

LocEntries ==
    { StrV(<<"junk">>),
      Entry(NoneV, StrV(<<Url>>), BoolV(TRUE), NoneV),
      Entry(StrV(<< >>), BoolV(FALSE), NoneV, StrV(ExtraSample)),
      Entry(StrV(<<"/a">>), NoneV, NoneV, NoneV),
      Entry(StrV(<<"/b">>), NoneV, BoolV(TRUE), NoneV),
      Entry(StrV(<<SP, "/c", SP>>), StrV(<<SP, Url>>), StrV(<<"YES">>), NoneV),
      Entry(StrV(<<"/d">>), StrV(<<Url, "/">>), StrV(<<"On">>), StrV(<<"gzip on;">>)),
      Entry(StrV(<<"/e">>), StrV(<<Url, SP>>), StrV(<<"no">>), NoneV),
      Entry(StrV(<<"/f">>), BoolV(FALSE), BoolV(TRUE), StrV(ExtraSample)),
      Entry(StrV(<<"/g">>), BoolV(FALSE), NoneV, StrV(<<"return 204;">>)),
      Entry(StrV(<<"/h">>), StrV(<< >>), BoolV(FALSE), NoneV),
      Entry(StrV(<<"/i">>), StrV(<<SP>>), StrV(<<"True">>), NoneV),
      Entry(StrV(<<"/j">>), BoolV(TRUE), NoneV, NoneV) }

LocLists == UNION { [1..n -> LocEntries] : n \in 0..MaxLocs }

LocSamples ==
    { Mapping([EmptyData EXCEPT
                 !["name"] = StrV(<<"api">>), !["domain"] = StrV(<<"api.example.com">>),
                 !["upstream_host"] = hp[1], !["upstream_port"] = hp[2],
                 !["working_dir"] = StrV(<<"/srv/api">>),
                 !["start_cmd"] = StrV(<<"/usr/bin/api-server">>),
                 !["locations"] = l]) :
        hp \in {<<NoneV, IntV(8080)>>, <<StrV(<<"10.1.1.1">>), StrV(<<"9000">>)>>},
        l \in {ListV(ll) : ll \in LocLists} \cup {NoneV, StrV(<<"/api">>)} }

LocInit ==
    /\ raw \in LocSamples
    /\ tmpl = StandardTemplates
    /\ out = EmptyFs
    /\ selected \in StrictModes
    /\ svc = NoSvc /\ blocks = NoBlocks /\ renders = 0 /\ prevOut = out
    /\ resolved = << >>
    /\ pc = "parse"
    /\ store = EmptyStore /\ queue = << >> /\ idx = 0
    /\ rendered = << >> /\ parsedLog = << >> /\ writeLog = << >>
    /\ exit = NoExit /\ err = NoErr /\ out0 = out

LocSpec == LocInit /\ [][PipeNext]_vars

(***************************************************************************)
(* load_services                                                           *)
(***************************************************************************)
\* File stems are 1..MaxFiles, in the order sorted() gives their paths;
\* the name 0 is the empty string.
Stems == 1..MaxFiles
Exists(fs, stem) == stem \in DOMAIN fs /\ fs[stem] # NoFile

\* sorted(SERVICES_DIR.glob("*.yml"))
RECURSIVE SortedFrom(_, _)
SortedFrom(fs, i) ==
    IF i > MaxFiles THEN << >>
    ELSE (IF Exists(fs, i) THEN <<i>> ELSE << >>) \o SortedFrom(fs, i + 1)

\* lines 30-38
RECURSIVE Uniq(_, _)
Uniq(names, seen) ==
    IF names = << >> THEN << >>
    ELSE IF Head(names) = 0 THEN Uniq(Tail(names), seen)
    ELSE IF Head(names) \in seen THEN Uniq(Tail(names), seen)
    ELSE <<Head(names)>> \o Uniq(Tail(names), seen \cup {Head(names)})

\* lines 40-47: the names of uniq without (missing) or with (services) a file
RECURSIVE Partition(_, _, _)
Partition(fs, uniq, want) ==
    IF uniq = << >> THEN << >>
    ELSE (IF Exists(fs, Head(uniq)) = want THEN <<Head(uniq)>> ELSE << >>)
            \o Partition(fs, Tail(uniq), want)

\* Mutant: only the first missing name is reported.
load_services_FirstMissing(fs, sel) ==
    IF ~sel.given
    THEN [res |-> "ok", services |-> SortedFrom(fs, 1)]
    ELSE LET uniq == Uniq(sel.names, {})
             missing == Partition(fs, uniq, FALSE)
         IN IF missing # << >>
            THEN [res |-> "exit",
                  msg |-> [kind |-> "not_found", files |-> <<Head(missing)>>,
                           fields |-> << >>]]
            ELSE [res |-> "ok", services |-> Partition(fs, uniq, TRUE)]

\* Mutant: the selected files are processed in sorted order, not as requested.
load_services_Sorted(fs, sel) ==
    IF ~sel.given
    THEN [res |-> "ok", services |-> SortedFrom(fs, 1)]
    ELSE LET uniq == Uniq(sel.names, {})
             missing == Partition(fs, uniq, FALSE)
             wanted == {uniq[i] : i \in 1..Len(uniq)}
         IN IF missing # << >>
            THEN [res |-> "exit",
                  msg |-> [kind |-> "not_found", files |-> missing, fields |-> << >>]]
            ELSE [res |-> "ok",
                  services |-> SortedFrom([i \in Stems |-> IF i \in wanted THEN fs[i]
                                                          ELSE NoFile], 1)]

\* [res |-> "ok", services |-> ...] or [res |-> "exit", msg |-> ...] (SystemExit)
load_services(fs, sel) ==
    IF ~sel.given
    THEN [res |-> "ok", services |-> SortedFrom(fs, 1)]
    ELSE LET uniq == Uniq(sel.names, {})
             missing == Partition(fs, uniq, FALSE)
         IN IF missing # << >>
            THEN [res |-> "exit",
                  msg |-> [kind |-> "not_found", files |-> missing, fields |-> << >>]]
            ELSE [res |-> "ok", services |-> Partition(fs, uniq, TRUE)]

(***************************************************************************)
(* main: one batch run                                                     *)
(***************************************************************************)
RunSamples ==
    { Mapping([EmptyData EXCEPT
                 !["name"] = StrV(<<"api">>), !["domain"] = StrV(<<"api.example.com">>),
                 !["upstream_port"] = IntV(8080), !["working_dir"] = StrV(<<"/srv/api">>),
                 !["start_cmd"] = StrV(<<"/usr/bin/api-server">>)]),
      Mapping([EmptyData EXCEPT
                 !["name"] = StrV(<<"web">>), !["domain"] = StrV(<<"b.test">>),
                 !["upstream_port"] = StrV(<<"9000">>), !["working_dir"] = StrV(<<"/srv/web">>),
                 !["start_cmd"] = StrV(<<"docker-compose", SP, "up">>),
                 !["static_root"] = StrV(<<"/var/www/app">>),
                 !["allow_plain_http"] = BoolV(TRUE)]),
      Mapping([EmptyData EXCEPT
                 !["name"] = StrV(<<"bad">>), !["upstream_port"] = IntV(0),
                 !["start_cmd"] = StrV(<<"/usr/bin/bad">>)]),
      [kind |-> "unparsable"],
      [kind |-> "nonmapping"] }

\* args.service: None, or the list the --service options appended
Selections ==
    {NoSel} \cup
    UNION { {[given |-> TRUE, names |-> s] : s \in [1..n -> 0..MaxFiles]} : n \in 1..MaxSel }

\* line 376
Strict == selected.given

Init ==
    /\ store \in [Stems -> RunSamples \cup {NoFile}]
    /\ selected \in Selections
    /\ tmpl = StandardTemplates
    /\ out = EmptyFs /\ out0 = out
    /\ pc = "start"
    /\ queue = << >> /\ idx = 0 /\ rendered = << >>
    /\ parsedLog = << >> /\ writeLog = << >>
    /\ exit = NoExit /\ err = NoErr
    /\ raw = NoFile /\ svc = NoSvc /\ blocks = NoBlocks /\ renders = 0 /\ prevOut = out
    /\ resolved = << >>

\* line 377: load_services(args.service) returns the list
Load ==
    /\ pc = "start"
    /\ load_services(store, selected).res = "ok"
    /\ queue' = load_services(store, selected).services
    /\ pc' = "loop"
    /\ UNCHANGED <<store, out, tmpl, selected, idx, rendered, parsedLog, writeLog, exit,
                   err, out0, pipeVars>>

\* line 50: load_services raises SystemExit
LoadFail ==
    /\ pc = "start"
    /\ load_services(store, selected).res = "exit"
    /\ err' = load_services(store, selected).msg
    /\ exit' = 1
    /\ pc' = "exit"
    /\ UNCHANGED <<store, out, tmpl, selected, queue, idx, rendered, parsedLog, writeLog,
                   out0, pipeVars>>

\* the outcome of parse_service on the next file of the loop
Current == queue[idx + 1]
Parsed == parse_service(Current, store[Current], Strict)

\* lines 378-383: the descriptor is valid; it is rendered
StepRender ==
    /\ pc = "loop" /\ idx < Len(queue)
    /\ Parsed.res = "ok"
    /\ parsedLog' = Append(parsedLog, Current)
    /\ out' = render_service(out, tmpl, Parsed.svc)
    /\ writeLog' = writeLog \o <<NginxPath(Parsed.svc.NAME), SystemdPath(Parsed.svc.NAME)>>
    /\ rendered' = Append(rendered, Parsed.svc.NAME)
    /\ idx' = idx + 1
    /\ UNCHANGED <<store, tmpl, selected, pc, queue, exit, err, out0, pipeVars>>

\* lines 378-380: parse_service returned None; continue
StepSkip ==
    /\ pc = "loop" /\ idx < Len(queue)
    /\ Parsed.res = "skip"
    /\ parsedLog' = Append(parsedLog, Current)
    /\ idx' = idx + 1
    /\ UNCHANGED <<store, out, tmpl, selected, pc, queue, rendered, writeLog, exit, err,
                   out0, pipeVars>>

\* Mutant: the abort removes what the run has written so far.
StepAbort_Rollback ==
    /\ pc = "loop" /\ idx < Len(queue)
    /\ Parsed.res = "exit"
    /\ parsedLog' = Append(parsedLog, Current)
    /\ err' = Parsed.msg
    /\ exit' = 1
    /\ pc' = "exit"
    /\ out' = out0
    /\ UNCHANGED <<store, tmpl, selected, queue, idx, rendered, writeLog, out0,
                   pipeVars>>

\* line 378: parse_service raised SystemExit
StepAbort ==
    /\ pc = "loop" /\ idx < Len(queue)
    /\ Parsed.res = "exit"
    /\ parsedLog' = Append(parsedLog, Current)
    /\ err' = Parsed.msg
    /\ exit' = 1
    /\ pc' = "exit"
    /\ UNCHANGED <<store, out, tmpl, selected, queue, idx, rendered, writeLog, out0,
                   pipeVars>>

\* lines 385-394, when something was rendered or the run is lenient: return 0
Finish ==
    /\ pc = "loop" /\ idx = Len(queue)
    /\ rendered # << >> \/ ~Strict
    /\ exit' = 0
    /\ pc' = "exit"
    /\ UNCHANGED <<store, out, tmpl, selected, queue, idx, rendered, parsedLog, writeLog,
                   err, out0, pipeVars>>

\* lines 385-387: SystemExit("No services rendered.")
FinishNone ==
    /\ pc = "loop" /\ idx = Len(queue)
    /\ rendered = << >> /\ Strict
    /\ err' = [kind |-> "none_rendered", files |-> << >>, fields |-> << >>]
    /\ exit' = 1
    /\ pc' = "exit"
    /\ UNCHANGED <<store, out, tmpl, selected, queue, idx, rendered, parsedLog, writeLog,
                   out0, pipeVars>>

Next == Load \/ LoadFail \/ StepRender \/ StepSkip \/ StepAbort \/ Finish \/ FinishNone

Spec == Init /\ [][Next]_vars

(***************************************************************************)
(* Claims about the rendered segments (checked under PipeSpec)             *)
(***************************************************************************)
Rendered == pc = "rendered"

\* the main route of a segment, as the claims describe it: 'location / {',
\* the main-route body, the closing brace
MainRoute(b) == <<MainOpen>> \o b.location_root \o <<NL, "    }\n\n">>

\* the health-check stub for the service's health path
StubOf(service) ==
    <<"    location ">> \o service.HEALTH_PATH
        \o <<" {\n", "        access_log off;\n", "        return 200 \"healthy\\n\";\n",
             "        add_header Content-Type text/plain;\n", "    }\n">>

\* the segment carries the application: main route, fallback route, custom
\* routes and health stub, in that order
CarriesApp(segment, b, service) ==
    Contains(segment, MainRoute(b) \o b.fallback_location \o b.extra_locations
                        \o <<HealthComment>> \o StubOf(service))

\* C1: with allowPlainHttp false the plain segment is the ACME passthrough and
\* a 301 redirect only: no 'location /' block, no fallback route, no custom
\* routes, no health stub.
C1_PlainIsRedirectOnly ==
    (Rendered /\ ~svc.ALLOW_PLAIN_HTTP) =>
        /\ Has(blocks.http_block, AcmeOpen)
        /\ Has(blocks.http_block, RedirectLine)
        /\ ~Has(blocks.http_block, MainOpen)
        /\ ~Has(blocks.http_block, FallbackOpen)
        /\ ~Has(blocks.http_block, HealthComment)
        /\ (blocks.extra_locations # << >>
                => ~Contains(blocks.http_block, blocks.extra_locations))

\* C2: with allowPlainHttp true there is no encrypted segment, and the plain
\* segment carries the full application body and no redirect.
C2_PlainHttpFullBody ==
    (Rendered /\ svc.ALLOW_PLAIN_HTTP) =>
        /\ blocks.https_block = << >>
        /\ Has(blocks.http_block, AcmeOpen)
        /\ CarriesApp(blocks.http_block, blocks, svc)
        /\ ~Has(blocks.http_block, RedirectLine)

C2_Witness ==
    /\ Rendered /\ svc.ALLOW_PLAIN_HTTP
    /\ svc.STATIC_ROOT # << >> /\ Len(svc.LOCATIONS) = 2
    /\ blocks.fallback_location # << >> /\ blocks.extra_locations # << >>

\* C3: the encrypted segment exists iff allowPlainHttp is false; when it
\* exists it names fullchain.pem and privkey.pem under the descriptor's domain
\* and carries the root directive and the full application body.
C3_EncryptedSegment ==
    Rendered =>
        /\ (blocks.https_block # << >>) <=> ~svc.ALLOW_PLAIN_HTTP
        /\ blocks.https_block # << >> =>
            /\ Contains(blocks.https_block,
                        <<CertOpen>> \o svc.DOMAIN_ \o <<"/fullchain.pem;\n">>)
            /\ Contains(blocks.https_block,
                        <<KeyOpen>> \o svc.DOMAIN_ \o <<"/privkey.pem;\n">>)
            /\ Contains(blocks.https_block, blocks.root_directive \o <<NL>>)
            /\ CarriesApp(blocks.https_block, blocks, svc)

C3_Witness ==
    /\ Rendered /\ ~svc.ALLOW_PLAIN_HTTP
    /\ blocks.https_block # << >> /\ blocks.root_directive # << >>
    /\ svc.DOMAIN_ = <<"b.test">>

\* C4: build_nginx_blocks yields exactly one of two triples: static root set:
\* a root directive, a try_files ... @app main route without proxy_pass, and a
\* non-empty @app fallback proxying to http://host:port; static root empty: no
\* root directive, no fallback, and a main route proxying to http://host:port.
C4_StaticBifurcation ==
    Rendered =>
        LET target == <<ProxyPassOpen, "http://">> \o svc.UPSTREAM_HOST \o <<":">>
                        \o svc.UPSTREAM_PORT \o <<";\n">>
        IN IF svc.STATIC_ROOT # << >>
           THEN /\ blocks.root_directive # << >>
                /\ Contains(blocks.root_directive, <<RootOpen>> \o svc.STATIC_ROOT)
                /\ Has(blocks.location_root, TryFilesLine)
                /\ ~Has(blocks.location_root, ProxyPassOpen)
                /\ blocks.fallback_location # << >>
                /\ Head(blocks.fallback_location) = FallbackOpen
                /\ Contains(blocks.fallback_location, target)
           ELSE /\ blocks.root_directive = << >>
                /\ blocks.fallback_location = << >>
                /\ Contains(blocks.location_root, target)
                /\ ~Has(blocks.location_root, TryFilesLine)

C4_Witness ==
    /\ Rendered /\ svc.STATIC_ROOT = <<"/var/www/app">>
    /\ svc.UPSTREAM_PORT = <<"8", "0", "8", "0">>
    /\ blocks.fallback_location # << >>

\* the mapping as a function of the placeholder: the text a placeholder that
\* starts s stands for, or "none"
Mapped(s, items) ==
    IF \E i \in 1..Len(items) : Len(s) >= 3 /\ SubSeq(s, 1, 3) = Tok(items[i][1])
    THEN [hit |-> TRUE,
          text |-> items[CHOOSE i \in 1..Len(items) :
                            SubSeq(s, 1, 3) = Tok(items[i][1])][2]]
    ELSE [hit |-> FALSE, text |-> << >>]

\* every placeholder of the original template replaced at once by its text
RECURSIVE Simultaneous(_, _)
Simultaneous(template, items) ==
    IF template = << >> THEN << >>
    ELSE IF Mapped(template, items).hit
         THEN Mapped(template, items).text
                \o Simultaneous(SubSeq(template, 4, Len(template)), items)
         ELSE <<Head(template)>> \o Simultaneous(Tail(template), items)

\* C5: render_template substitutes literally and not recursively: the output
\* is the template with each placeholder of the original template replaced by
\* its mapped text; a replacement text holding another placeholder is written
\* verbatim.
C5_LiteralSubstitution ==
    Rendered =>
        /\ out[SystemdPath(svc.NAME)] = Simultaneous(tmpl.systemd, systemd_replacements(svc))
        /\ out[NginxPath(svc.NAME)] = Simultaneous(tmpl.nginx, nginx_replacements(svc))

\* C6: rendering is idempotent: a second render_service on the same
\* descriptor leaves every file of generated/ as the first left it.
C6_RenderIdempotent ==
    renders >= 2 => out = prevOut

C6_Witness ==
    /\ renders = 2 /\ out0 = StaleFs
    /\ out # out0
    /\ NginxPath(<<"other">>) \in DOMAIN out

(***************************************************************************)
(* Claims about the batch run (checked under Spec)                         *)
(***************************************************************************)
\* the descriptor file of a stem is present
Present(stem) == stem \in Stems /\ store[stem] # NoFile

\* the required fields a mapping lacks, in the order name, domain,
\* upstream_port, start_cmd, working_dir
Absent(data) ==
    SelectSeq(<<"name", "domain", "upstream_port", "start_cmd", "working_dir">>,
              LAMBDA k : ~Truthy(data[k]))

\* what is wrong with a present descriptor: unparsable content, a non-mapping
\* top level, missing required fields; "valid" otherwise
Fault(stem) ==
    CASE store[stem].kind = "unparsable" -> "failed_to_parse"
      [] store[stem].kind = "nonmapping" -> "expected_mapping"
      [] store[stem].kind = "empty" -> "missing"
      [] store[stem].kind = "mapping" ->
            IF Absent(store[stem].data) # << >> THEN "missing" ELSE "valid"

Offending(stem) == Present(stem) /\ Fault(stem) # "valid"
Valid(stem) == Present(stem) /\ Fault(stem) = "valid"
NameOf(stem) == store[stem].data["name"].s

SkipKinds == {"failed_to_parse", "expected_mapping", "missing"}
Aborted == Strict /\ pc = "exit" /\ err.kind \in SkipKinds

\* the requested names without a descriptor file, each once, in first-seen order
RECURSIVE MissingRequested(_)
MissingRequested(k) ==
    IF k = 0 THEN << >>
    ELSE LET n == selected.names[k]
         IN MissingRequested(k - 1)
              \o (IF n # 0 /\ ~Present(n) /\ \A j \in 1..(k - 1) : selected.names[j] # n
                  THEN <<n>> ELSE << >>)

\* C7: an explicit selection with a name that has no descriptor file fails the
\* whole batch with one error naming every missing name once, in first-seen
\* order, before anything is parsed or written.
C7_MissingNamesFailBatch ==
    (Strict /\ pc # "start" /\ MissingRequested(Len(selected.names)) # << >>) =>
        /\ pc = "exit" /\ exit = 1
        /\ err.kind = "not_found"
        /\ err.files = MissingRequested(Len(selected.names))
        /\ parsedLog = << >> /\ writeLog = << >> /\ rendered = << >>
        /\ out = out0

C7_Witness ==
    /\ Strict /\ pc = "exit" /\ err.kind = "not_found"
    /\ Len(err.files) = 2 /\ err.files[1] > err.files[2]
    /\ \E s \in Stems : Valid(s)

\* C8: in strict mode the first descriptor that yields a skip signal aborts
\* the run with an error naming the cause and a failure status; nothing later
\* in the selection order is parsed or rendered.
C8_StrictAbortsAtFirstSkip ==
    (Strict /\ pc # "start") =>
        /\ parsedLog = SubSeq(queue, 1, Len(parsedLog))
        /\ \A i \in 1..Len(parsedLog) :
              Offending(parsedLog[i]) =>
                  /\ i = Len(parsedLog)
                  /\ pc = "exit" /\ exit = 1
                  /\ err.kind = Fault(parsedLog[i])
                  /\ err.files = <<parsedLog[i]>>
                  /\ err.kind = "missing" =>
                        err.fields = (IF store[parsedLog[i]].kind = "empty"
                                      THEN Absent(EmptyData)
                                      ELSE Absent(store[parsedLog[i]].data))
                  /\ rendered = [j \in 1..(i - 1) |-> NameOf(parsedLog[j])]
                  /\ Len(writeLog) = 2 * (i - 1)

C8_Witness ==
    /\ Aborted /\ exit = 1
    /\ Len(queue) = 2 /\ Len(parsedLog) = 1
    /\ Valid(queue[2])

\* C9: in lenient mode the run parses every descriptor file in sorted order,
\* skips the invalid ones and renders the valid ones: at the end the rendered
\* services are exactly the valid descriptors of the store, and the run exits
\* with status 0.
C9_LenientRendersAllValid ==
    ~Strict =>
        /\ exit # 1 /\ err = NoErr
        /\ pc = "exit" =>
            /\ exit = 0
            /\ \A i \in 1..Len(parsedLog), j \in 1..Len(parsedLog) :
                  i < j => parsedLog[i] < parsedLog[j]
            /\ {parsedLog[i] : i \in 1..Len(parsedLog)} = {s \in Stems : Present(s)}
            /\ {rendered[i] : i \in 1..Len(rendered)} = {NameOf(s) : s \in {t \in Stems : Valid(t)}}
            /\ Len(rendered) = Cardinality({s \in Stems : Valid(s)})
            /\ \A s \in Stems : Valid(s) =>
                  /\ NginxPath(NameOf(s)) \in DOMAIN out
                  /\ SystemdPath(NameOf(s)) \in DOMAIN out

C9_Witness ==
    /\ ~Strict /\ pc = "exit" /\ exit = 0
    /\ Offending(1) /\ Valid(2) /\ Offending(3)
    /\ Len(rendered) = 1

\* the offending descriptors of the selection
OffendingSelected == {s \in {queue[i] : i \in 1..Len(queue)} : Offending(s)}

\* C10 as stated: the strict-mode abort names every offending descriptor of
\* the selection.
C10_NamesEveryOffender ==
    Aborted => \A s \in OffendingSelected : Has(err.files, s)

\* the first requested name whose descriptor is offending
FirstOffenderRequested ==
    LET pos == {i \in 1..Len(selected.names) : Offending(selected.names[i])}
    IN selected.names[CHOOSE i \in pos : \A j \in pos : i <= j]

\* C10 (amended): the strict-mode abort names exactly one descriptor, the
\* first offending one in selection order, whatever later ones are offending.
C10_NamesFirstOffenderOnly ==
    Aborted =>
        /\ OffendingSelected # {}
        /\ err.files = <<FirstOffenderRequested>>
        /\ err.kind = Fault(FirstOffenderRequested)

C10_Witness ==
    /\ Aborted /\ err.kind = "missing"
    /\ Cardinality(OffendingSelected) = 2
    /\ queue[1] > queue[2]

\* ---- C11, C12: validation and the derived unit fields ----

Validated == pc \in {"render", "rendered"}
Signalled == pc \in {"skipped", "aborted"}

\* the required fields the descriptor leaves empty, a quoted-empty sentinel
\* counting as empty, in the order of the message
AbsentRequired ==
    LET data == IF raw.kind = "mapping" THEN raw.data ELSE EmptyData
        Miss(k) == IF ~Truthy(data[k]) \/ data[k] \in QuotedEmpty THEN <<k>> ELSE << >>
    IN Flatten([i \in 1..Len(Required) |-> Miss(Required[i])])

\* C11: parse_service returns a validated descriptor only if none of name,
\* domain, upstream_port, start_cmd, working_dir is empty, where the literals
\* "" and '' count as empty for each of them; otherwise the descriptor is
\* signalled and, for a mapping, the message lists exactly the absent fields.
C11_SentinelsCountAsEmpty ==
    /\ Validated => AbsentRequired = << >>
    /\ (Signalled /\ raw.kind \in {"mapping", "empty"}) =>
          (err.kind = "missing" /\ err.fields = AbsentRequired)

\* start_cmd of the descriptor, compared case-insensitively, contains
\* "docker compose" or "docker-compose"
ComposeCmd ==
    LET c == raw.data["start_cmd"]
        At(s, i, w) == i + Len(w) - 1 <= Len(s)
                       /\ \A j \in 1..Len(w) : LowerTok(s[i + j - 1]) = w[j]
    IN c.t = "str" /\ \E i \in 1..Len(c.s) :
           At(c.s, i, <<"docker", SP, "compose">>) \/ At(c.s, i, <<"docker-compose">>)

UnitTriple == <<svc.TYPE, svc.REMAIN_AFTER_EXIT, svc.RESTART>>

\* C12: a validated descriptor has the triple (oneshot, yes, no) iff its
\* start_cmd names docker compose in either spelling and any case, else
\* (simple, no, always); the rendered unit carries these three values.
C12_UnitTriple ==
    /\ Validated =>
          UnitTriple = IF ComposeCmd THEN <<<<"oneshot">>, <<"yes">>, <<"no">>>>
                       ELSE <<<<"simple">>, <<"no">>, <<"always">>>>
    /\ Rendered =>
          LET unit == out[SystemdPath(svc.NAME)]
          IN /\ Contains(unit, <<"\n[Service]\nType=">> \o svc.TYPE \o <<"\nUser=">>)
             /\ Contains(unit, <<"\nRemainAfterExit=">> \o svc.REMAIN_AFTER_EXIT
                                  \o <<"\nRestart=">> \o svc.RESTART \o <<NL>>)

\* a unit rendered for a start_cmd that spells DOCKER-COMPOSE in capitals
C12_Witness ==
    /\ Rendered /\ ComposeCmd
    /\ Has(raw.data["start_cmd"].s, "DOCKER-COMPOSE")
    /\ Contains(out[SystemdPath(svc.NAME)], <<"\n[Service]\nType=">> \o <<"oneshot">>)

\* ---- C13 .. C16: custom locations ----

\* the raw entries of the descriptor's locations list
RawEntries ==
    LET l == raw.data["locations"] IN IF l.t = "list" THEN l.l ELSE << >>

\* the entries that are mappings with a path, in input order
IsKept(e) == e.t = "map" /\ Truthy(e.m["path"])
Kept == SelectSeq(RawEntries, IsKept)

\* http://<upstreamHost>:<upstreamPort> of the descriptor
DefaultTarget ==
    LET h == raw.data["upstream_host"]
    IN <<"http://">> \o (IF Truthy(h) THEN h.s ELSE <<"127.0.0.1">>) \o <<":">>
         \o PyStr(raw.data["upstream_port"])

\* t is s without its leading and trailing whitespace
Trimmed(s, t) ==
    /\ t = << >> \/ (~IsSpace(t[1]) /\ ~IsSpace(t[Len(t)]))
    /\ \E a \in 0..Len(s) :
          /\ a + Len(t) <= Len(s)
          /\ SubSeq(s, a + 1, a + Len(t)) = t
          /\ \A k \in (1..a) \cup ((a + Len(t) + 1)..Len(s)) : IsSpace(s[k])

StripIntent(e) ==
    LET v == e.m["strip_prefix"]
    IN \/ v = BoolV(TRUE)
       \/ v.t = "str" /\ Len(v.s) = 1 /\ LowerTok(v.s[1]) \in {"true", "yes", "1", "on"}

\* C14: for a kept entry with strip_prefix true the normalized target is
\* empty or ends with "/", a resolved target already ending with "/" is
\* unchanged, otherwise exactly one "/" is appended; with strip_prefix false
\* the normalized target is the resolved target.
C14_StripPrefixSeparator ==
    Validated =>
      /\ Len(svc.LOCATIONS) = Len(Kept) /\ Len(resolved) = Len(Kept)
      /\ \A i \in 1..Len(Kept) :
            LET target == svc.LOCATIONS[i].proxy_pass
            IN IF StripIntent(Kept[i])
               THEN /\ target = << >> \/ EndsWith(target, "/")
                    /\ (resolved[i] = << >> \/ EndsWith(resolved[i], "/")) => target = resolved[i]
                    /\ target \in {resolved[i], resolved[i] \o <<"/">>}
               ELSE target = resolved[i]

\* a list where "YES" appends the separator to one target and "On" leaves a
\* target that already ends with "/" alone
C14_Witness ==
    /\ Validated
    /\ \E i, j \in 1..Len(Kept) :
          /\ Kept[i].m["strip_prefix"] = StrV(<<"YES">>)
          /\ resolved[i] = <<Url>> /\ svc.LOCATIONS[i].proxy_pass = <<Url, "/">>
          /\ Kept[j].m["strip_prefix"] = StrV(<<"On">>)
          /\ resolved[j] = <<Url, "/">> /\ svc.LOCATIONS[j].proxy_pass = <<Url, "/">>

ProxyDirectives ==
    { ProxyPassOpen,
      "        proxy_set_header Host $host;",
      "        proxy_set_header X-Real-IP $remote_addr;",
      "        proxy_set_header X-Forwarded-For $proxy_add_x_forwarded_for;",
      "        proxy_set_header X-Forwarded-Proto $scheme;" }

\* the extra lines an entry supplies: right-trimmed, without the trailing blank ones
RECURSIVE DropBlankTail(_)
DropBlankTail(ls) ==
    IF ls # << >> /\ ls[Len(ls)] = << >> THEN DropBlankTail(SubSeq(ls, 1, Len(ls) - 1)) ELSE ls

SuppliedLines(e) ==
    LET x == e.m["extra"]
        ls == IF x.t = "str" THEN SplitLines(x.s) ELSE << >>
    IN DropBlankTail([i \in 1..Len(ls) |-> RStrip(ls[i])])

\* the rendered block of the i-th kept entry
BlockOf(i) == LocationBlock(svc.LOCATIONS[i])

\* C15: the block rendered for an entry with proxy_pass: false is in the
\* site file, opens with its location header, has no proxy_pass and no
\* proxy_set_header directive, and holds every supplied extra line in order.
C15_DisabledProxyKeepsExtras ==
    Rendered =>
      \A i \in 1..Len(Kept) :
        Kept[i].m["proxy_pass"] = BoolV(FALSE) =>
          LET lines == SuppliedLines(Kept[i])
              body == Join(<<NL>>, [k \in 1..Len(lines) |-> <<"        ">> \o lines[k]])
          IN /\ Contains(out[NginxPath(svc.NAME)], BlockOf(i))
             /\ SubSeq(BlockOf(i), 1, 3) = <<"    location ", svc.LOCATIONS[i].path[1], " {">>
             /\ \A k \in 1..Len(BlockOf(i)) : BlockOf(i)[k] \notin ProxyDirectives
             /\ BlockOf(i) = SubSeq(BlockOf(i), 1, 3) \o <<NL>> \o body \o <<NL, "    }">>

\* proxy_pass: false with strip_prefix: true and a three-line extra, rendered
C15_Witness ==
    /\ Rendered
    /\ \E i \in 1..Len(Kept) :
          /\ Kept[i].m["proxy_pass"] = BoolV(FALSE) /\ StripIntent(Kept[i])
          /\ Len(SuppliedLines(Kept[i])) = 3
          /\ Contains(out[NginxPath(svc.NAME)],
                      <<"    location ", "/f", " {", NL, "        ", "alias /srv/static;", NL,
                        "        ", NL, "        ", "expires 1h;", NL, "    }">>)

\* the paths after each custom-route header of a text, in order of appearance
HeadersOf(text) ==
    LET Idx == {i \in 1..(Len(text) - 2) : text[i] = "    location " /\ text[i + 2] = " {"}
        Rank(i) == Cardinality({j \in Idx : j <= i})
    IN [n \in 1..Cardinality(Idx) |-> text[(CHOOSE i \in Idx : Rank(i) = n) + 1]]

KeptPaths == [i \in 1..Len(Kept) |-> LET t == Strip(Kept[i].m["path"].s) IN t[1]]

\* C16: parse_locations keeps exactly the mappings with a path, in input
\* order; no entry makes the descriptor be skipped or the run abort, in
\* lenient or strict mode; the custom-route blocks of the site file appear in
\* that order (once per server block that carries the application body).
C16_OrderPreservingFilter ==
    /\ ~Signalled
    /\ Validated =>
          /\ Len(svc.LOCATIONS) = Len(Kept)
          /\ \A i \in 1..Len(Kept) : Trimmed(Kept[i].m["path"].s, svc.LOCATIONS[i].path)
    /\ Rendered =>
          /\ HeadersOf(blocks.extra_locations) = KeptPaths
          /\ HeadersOf(out[NginxPath(svc.NAME)]) \in {KeptPaths, KeptPaths \o KeptPaths}

\* strict mode: a non-mapping entry is dropped, the entry after it is rendered
C16_Witness ==
    /\ Rendered /\ selected.given
    /\ Len(RawEntries) = 2 /\ RawEntries[1] = StrV(<<"junk">>)
    /\ KeptPaths = <<"/b">>
    /\ HeadersOf(blocks.extra_locations) = <<"/b">>

\* ---- C17, C18: the output files of a batch run ----

\* C17: no two descriptor files of a run write the same output path: the
\* writes of the run are pairwise distinct paths, two per rendered descriptor.
C17_DistinctOutputPaths ==
    /\ \A i, j \in 1..Len(writeLog) : i # j => writeLog[i] # writeLog[j]
    /\ Cardinality(DOMAIN out \ DOMAIN out0) = 2 * Len(rendered)

\* generated/ after the first n descriptors of the queue were rendered
RECURSIVE RenderedPrefix(_)
RenderedPrefix(n) ==
    IF n = 0 THEN out0
    ELSE render_service(RenderedPrefix(n - 1), tmpl,
                        parse_service(queue[n], store[queue[n]], Strict).svc)

PathsOf(stem) == {NginxPath(NameOf(stem)), SystemdPath(NameOf(stem))}

\* C18: when a strict run aborts at descriptor k = idx + 1, generated/ is what
\* rendering descriptors 1..k-1 left: each of them has its two files with the
\* rendered content, and nothing else was written or removed.
C18_NoRollback ==
    Aborted =>
      /\ idx < Len(queue)
      /\ Len(rendered) = idx /\ Len(writeLog) = 2 * idx
      /\ \A n \in 1..idx : PathsOf(queue[n]) \subseteq DOMAIN out
      /\ out = RenderedPrefix(idx)
      /\ \A p \in DOMAIN out :
            \/ \E n \in 1..idx : p \in PathsOf(queue[n])
            \/ p \in DOMAIN out0 /\ out[p] = out0[p]

\* the run aborted at its second descriptor; the first one's files are there
C18_Witness ==
    /\ Aborted /\ idx = 1 /\ Len(queue) = 2
    /\ PathsOf(queue[1]) \subseteq DOMAIN out
    /\ out # out0

\* ---- C19: static-first segments ----

\* C19: a server segment whose main route has try_files ... @app also has
\* the directive root <static_root>; for both values of allow_plain_http.
C19_StaticSegmentHasRoot ==
    Rendered =>
      \A seg \in {blocks.http_block, blocks.https_block} :
        Has(seg, TryFilesLine) => Contains(seg, <<RootOpen>> \o svc.STATIC_ROOT \o <<";\n">>)
====
